---- MODULE Spec2Model ----
(***************************************************************************)
(* Model of app.py of lyanna: the startup/shutdown listeners, the         *)
(* per-request middleware that publishes the backend handles, the auth     *)
(* token bridge and the cached sitemap computation.                        *)
(*                                                                         *)
(* The specifications share the variables:                                 *)
(*   Spec             setup_db, setup_context, close_aiohttp_session       *)
(*   SpecRestart      the same, with setup_db invoked again                *)
(*   SpecError        startup, then ErrorHandler.default                   *)
(*   SpecAuth         retrieve_user, store_refresh_token, retrieve_...     *)
(*   SpecSitemap      _sitemap / sitemap, one call in flight at a time     *)
(*   SpecSitemapLive  overlapping calls, cache backend that may raise      *)
(* Each keeps the variables it does not use at their initial values.       *)
(***************************************************************************)
EXTENDS Integers, Sequences, FiniteSets, TLC

\* ------------------------------------------------------------------ bounds
MaxRequests == 3
MaxUserId == 2
MaxStores == 2
MaxCalls == 2
MaxContent == 1
MaxDay == 1
MaxStartups == 2
MaxFrames == 2

\* --------------------------------------------------------------- constants
\* Python's None for a handle, and the state of a ContextVar never set.
None == 0
Unset == -1

Requests == 1..MaxRequests

VARIABLES
    \* ---- module globals and application attributes (app.py 94-96, 116)
    client,          \* global `client`: None or the aiomcache client
    redis,           \* global `redis`: None or the aioredis pool
    session_iface,   \* client held by session's MemcacheSessionInterface
    async_session,   \* app.async_session: "none", "open" or "closed"
    db,              \* relational store connection: "closed" or "open"
    upload_exists,   \* does config.UPLOAD_FOLDER exist on disk
    \* ---- control state of the lifecycle
    startup,         \* position of setup_db
    server,          \* "starting", "serving" or "stopped"
    pc,              \* position of each request
    newPool,         \* pool a request's pending create_redis_pool yields
    redis_var,       \* request-scoped ContextVar redis_var
    memcache_var,    \* request-scoped ContextVar memcache_var
    \* ---- history of the lifecycle
    log,             \* the startup steps that took effect, in order
    upload_before,   \* did the upload directory exist before startup
    poolsCreated,    \* number of create_redis_pool invocations
    startups,        \* number of invocations of setup_db
    clientsMade,     \* number of aiomcache.Client objects constructed
    httpOpen,        \* number of aiohttp.ClientSession objects not closed
    handled,         \* the latest exception given to ErrorHandler.default
    \* ---- auth token bridge
    kv,              \* contents of the key-value store: key -> value
    users,           \* ids of the rows of User
    last,            \* the latest bridge call: operation, input, outcome
    lastStored,      \* history: token of the latest store for each user id
    stores,          \* number of store_refresh_token calls so far
    \* ---- cached sitemap
    routes,          \* app.router.routes_names: the registered routes
    mc,              \* contents of the memory cache: key -> payload
    content,         \* version of the Post and Tag collections
    today,           \* the day datetime.now() falls on
    spc,             \* position of each call of sitemap
    built,           \* payload the builder body returned to the wrapper
    ran,             \* did the builder body run in this call
    response,        \* HTTPResponse of each call
    builds,          \* number of runs of the builder body
    lastPayload,     \* history: payload the latest completed call returned
    prior,           \* history: lastPayload when the call started
    pendingInv,      \* history: key invalidated, no call started since
    fresh,           \* history: the call is the first after an invalidation
    stored,          \* history: cache entry right after the call's store
    lifeBuilds,      \* history: builder runs since the key was last removed
    fault            \* history: the cache error the call met, if any

lifeVars == <<client, redis, session_iface, async_session, db, upload_exists,
              startup, server, pc, newPool, redis_var, memcache_var,
              log, upload_before, poolsCreated,
              startups, clientsMade, httpOpen, handled>>

authVars == <<kv, users, last, lastStored, stores>>

mapVars == <<routes, mc, content, today, spc, built, ran, response, builds,
             lastPayload, prior, pendingInv, fresh, stored, lifeBuilds,
             fault>>

vars == <<lifeVars, authVars, mapVars>>

\* no exception has reached the error handler yet
NotHandled == [called |-> FALSE]

\* ===================================================================
\* Lifecycle: setup_db, setup_context, close_aiohttp_session
\* ===================================================================
InitLife ==
    /\ client = None
    /\ redis = None
    /\ session_iface = None
    /\ async_session = "none"
    /\ db = "closed"
    /\ upload_exists \in BOOLEAN
    /\ startup = "start"
    /\ server = "starting"
    /\ pc = [r \in Requests |-> "idle"]
    /\ newPool = [r \in Requests |-> None]
    /\ redis_var = [r \in Requests |-> Unset]
    /\ memcache_var = [r \in Requests |-> Unset]
    /\ log = <<>>
    /\ upload_before = upload_exists
    /\ poolsCreated = 0
    /\ startups = 1
    /\ clientsMade = 0
    /\ httpOpen = 0
    /\ handled = NotHandled

\* ------------------------------------------------------- setup_db (110-117)
\* line 113: await init_db() returns
InitDbOk ==
    /\ startup = "start"
    /\ db' = "open"
    /\ startup' = "connected"
    /\ log' = Append(log, "init_db")
    /\ UNCHANGED <<client, redis, session_iface, async_session, upload_exists,
                   server, pc, newPool, redis_var, memcache_var,
                   upload_before, poolsCreated>>
    /\ UNCHANGED <<startups, clientsMade, httpOpen, handled>>
    /\ UNCHANGED <<authVars, mapVars>>

\* a startup that constructs the cache client before it awaits init_db
InitDbRaise_clientFirst ==
    /\ startup = "start"
    /\ startup' = "aborted"
    /\ client' = 1
    /\ UNCHANGED <<redis, session_iface, async_session, db,
                   upload_exists, server, pc, newPool, redis_var,
                   memcache_var, log, upload_before, poolsCreated>>
    /\ UNCHANGED <<startups, clientsMade, httpOpen, handled>>
    /\ UNCHANGED <<authVars, mapVars>>

\* line 113: await init_db() raises; the listener ends with the exception
InitDbRaise ==
    /\ startup = "start"
    /\ startup' = "aborted"
    /\ UNCHANGED <<client, redis, session_iface, async_session, db,
                   upload_exists, server, pc, newPool, redis_var,
                   memcache_var, log, upload_before, poolsCreated>>
    /\ UNCHANGED <<startups, clientsMade, httpOpen, handled>>
    /\ UNCHANGED <<authVars, mapVars>>

\* line 114: client = aiomcache.Client(...)
ConstructClient ==
    /\ startup = "connected"
    /\ client' = clientsMade + 1
    /\ startup' = "client"
    /\ log' = Append(log, "client")
    /\ UNCHANGED <<redis, session_iface, async_session, db, upload_exists,
                   server, pc, newPool, redis_var, memcache_var,
                   upload_before, poolsCreated>>
    /\ clientsMade' = clientsMade + 1
    /\ UNCHANGED <<startups, httpOpen, handled>>
    /\ UNCHANGED <<authVars, mapVars>>

\* line 115: session.init_app(app, interface=MemcacheSessionInterface(client))
BindSession ==
    /\ startup = "client"
    /\ session_iface' = client
    /\ startup' = "bound"
    /\ log' = Append(log, "session")
    /\ UNCHANGED <<client, redis, async_session, db, upload_exists,
                   server, pc, newPool, redis_var, memcache_var,
                   upload_before, poolsCreated>>
    /\ UNCHANGED <<startups, clientsMade, httpOpen, handled>>
    /\ UNCHANGED <<authVars, mapVars>>

\* a startup that constructs the HTTP client before it binds the session
ConstructHttp_beforeBind ==
    /\ startup = "client"
    /\ async_session' = "open"
    /\ startup' = "http"
    /\ log' = Append(log, "http")
    /\ UNCHANGED <<client, redis, session_iface, db, upload_exists,
                   server, pc, newPool, redis_var, memcache_var,
                   upload_before, poolsCreated>>
    /\ httpOpen' = httpOpen + 1
    /\ UNCHANGED <<startups, clientsMade, handled>>
    /\ UNCHANGED <<authVars, mapVars>>

\* line 116: app.async_session = aiohttp.ClientSession()
ConstructHttp ==
    /\ startup = "bound"
    /\ async_session' = "open"
    /\ startup' = "http"
    /\ log' = Append(log, "http")
    /\ UNCHANGED <<client, redis, session_iface, db, upload_exists,
                   server, pc, newPool, redis_var, memcache_var,
                   upload_before, poolsCreated>>
    /\ httpOpen' = httpOpen + 1
    /\ UNCHANGED <<startups, clientsMade, handled>>
    /\ UNCHANGED <<authVars, mapVars>>

\* line 117: Path(config.UPLOAD_FOLDER).mkdir(parents=True, exist_ok=True);
\* the listener returns and the server starts to accept connections
MakeUploadDir ==
    /\ startup = "http"
    /\ upload_exists' = TRUE
    /\ startup' = "done"
    /\ server' = "serving"
    /\ log' = Append(log, "mkdir")
    /\ UNCHANGED <<client, redis, session_iface, async_session, db,
                   pc, newPool, redis_var, memcache_var,
                   upload_before, poolsCreated>>
    /\ UNCHANGED <<startups, clientsMade, httpOpen, handled>>
    /\ UNCHANGED <<authVars, mapVars>>

\* ------------------------------------------------ setup_context (125-133)
\* a hook that publishes the pool and leaves memcache_var alone
Publish_redisOnly(r, pool) ==
    /\ redis_var' = [redis_var EXCEPT ![r] = pool]
    /\ UNCHANGED memcache_var

\* lines 132-133: redis_var.set(redis); memcache_var.set(client)
Publish(r, pool) ==
    /\ redis_var' = [redis_var EXCEPT ![r] = pool]
    /\ memcache_var' = [memcache_var EXCEPT ![r] = client]

\* lines 128-131 up to the await, or 128-133 when redis is already set
SetupContextEnter(r) ==
    /\ server = "serving"
    /\ pc[r] = "idle"
    /\ IF redis = None
       THEN /\ poolsCreated' = poolsCreated + 1
            /\ newPool' = [newPool EXCEPT ![r] = poolsCreated + 1]
            /\ pc' = [pc EXCEPT ![r] = "creating"]
            /\ UNCHANGED <<redis_var, memcache_var>>
       ELSE /\ Publish(r, redis)
            /\ pc' = [pc EXCEPT ![r] = "handler"]
            /\ UNCHANGED <<poolsCreated, newPool>>
    /\ UNCHANGED <<client, redis, session_iface, async_session, db,
                   upload_exists, startup, server, log, upload_before>>
    /\ UNCHANGED <<startups, clientsMade, httpOpen, handled>>
    /\ UNCHANGED <<authVars, mapVars>>

\* lines 130-133: the await returns the pool, which is assigned and published
SetupContextResume(r) ==
    /\ pc[r] = "creating"
    /\ redis' = newPool[r]
    /\ Publish(r, newPool[r])
    /\ pc' = [pc EXCEPT ![r] = "handler"]
    /\ UNCHANGED <<client, session_iface, async_session, db, upload_exists,
                   startup, server, newPool, log, upload_before,
                   poolsCreated>>
    /\ UNCHANGED <<startups, clientsMade, httpOpen, handled>>
    /\ UNCHANGED <<authVars, mapVars>>

\* line 130: create_redis_pool raises; the middleware ends with the exception
\* and the route handler is not run
SetupContextRaise(r) ==
    /\ pc[r] = "creating"
    /\ pc' = [pc EXCEPT ![r] = "error"]
    /\ newPool' = [newPool EXCEPT ![r] = None]
    /\ UNCHANGED <<client, redis, session_iface, async_session, db,
                   upload_exists, startup, server, redis_var, memcache_var,
                   log, upload_before, poolsCreated,
              startups, clientsMade, httpOpen, handled>>
    /\ UNCHANGED <<startups, clientsMade, httpOpen, handled>>
    /\ UNCHANGED <<authVars, mapVars>>

\* the route handler of the request runs to its end
Handler(r) ==
    /\ pc[r] = "handler"
    /\ pc' = [pc EXCEPT ![r] = "done"]
    /\ UNCHANGED <<client, redis, session_iface, async_session, db,
                   upload_exists, startup, server, newPool, redis_var,
                   memcache_var, log, upload_before, poolsCreated>>
    /\ UNCHANGED <<startups, clientsMade, httpOpen, handled>>
    /\ UNCHANGED <<authVars, mapVars>>

\* ------------------------------------------- setup_db, invoked once more
\* lines 110-112: nothing in setup_db tells a first run from a later one
SetupDbAgain ==
    /\ startup = "done"
    /\ server = "serving"
    /\ startups < MaxStartups
    /\ startups' = startups + 1
    /\ startup' = "start"
    /\ log' = <<>>
    /\ UNCHANGED <<client, redis, session_iface, async_session, db,
                   upload_exists, server, pc, newPool, redis_var,
                   memcache_var, upload_before, poolsCreated>>
    /\ UNCHANGED <<clientsMade, httpOpen, handled>>
    /\ UNCHANGED <<authVars, mapVars>>

\* a shutdown listener that returns without closing the session
close_aiohttp_session_noClose ==
    /\ server = "serving"
    /\ \A r \in Requests : pc[r] \notin {"creating", "handler"}
    /\ server' = "stopped"
    /\ UNCHANGED <<client, redis, session_iface, async_session, db,
                   upload_exists, startup, pc, newPool, redis_var,
                   memcache_var, log, upload_before, poolsCreated>>
    /\ UNCHANGED <<startups, clientsMade, httpOpen, handled>>
    /\ UNCHANGED <<authVars, mapVars>>

\* ---------------------------------------- close_aiohttp_session (120-122)
InFlight(r) == pc[r] \in {"creating", "handler"}

close_aiohttp_session ==
    /\ server = "serving"
    /\ \A r \in Requests : ~InFlight(r)
    /\ server' = "stopped"
    /\ async_session' = "closed"
    /\ UNCHANGED <<client, redis, session_iface, db, upload_exists, startup,
                   pc, newPool, redis_var, memcache_var, log, upload_before,
                   poolsCreated>>
    /\ httpOpen' = httpOpen - 1
    /\ UNCHANGED <<startups, clientsMade, handled>>
    /\ UNCHANGED <<authVars, mapVars>>

\* ===================================================================
\* Auth token bridge: retrieve_user, store_refresh_token,
\* retrieve_refresh_token
\* ===================================================================
\* Python values: None, a str, an int
PyNone == <<"None">>
PyStr(s) == <<"str", s>>
PyInt(n) == <<"int", n>>

UserIds == (-1..MaxUserId) \cup {10, 11, 42}
Tokens == {"abc", "xyz"}
UserCandidates == {0, 42}

EmptyMap == [k \in {} |-> PyNone]

\* str(n) of an int, one character per element
DigitChar(d) == <<"0", "1", "2", "3", "4", "5", "6", "7", "8", "9">>[d + 1]

\* a conversion that loses the sign
RECURSIVE Str_noSign(_)
Str_noSign(n) ==
    IF n < 0 THEN Str_noSign(-n)
    ELSE IF n < 10 THEN <<DigitChar(n)>>
    ELSE Str_noSign(n \div 10) \o <<DigitChar(n % 10)>>

RECURSIVE Str(_)
Str(n) ==
    IF n < 0 THEN <<"-">> \o Str(-n)
    ELSE IF n < 10 THEN <<DigitChar(n)>>
    ELSE Str(n \div 10) \o <<DigitChar(n % 10)>>

\* a key that leaves the user id out
Key_withoutId(user_id) == <<"refresh_token_">>

\* lines 40 and 45: key = f'refresh_token_{user_id}'
Key(user_id) == <<"refresh_token_">> \o Str(user_id)

\* redis.set(key, value) and redis.get(key) on the store's contents
RedisSet(store, key, value) ==
    [k \in DOMAIN store \cup {key} |-> IF k = key THEN value ELSE store[k]]

RedisGet(store, key) ==
    IF key \in DOMAIN store THEN PyStr(store[key]) ELSE PyNone

\* outcomes of a call
Returned(v) == [kind |-> "return", value |-> v, queried |-> FALSE]
Raised(e) == [kind |-> "raise", value |-> <<e>>, queried |-> FALSE]

\* the payloads handed to retrieve_user: None, or a mapping that may hold
\* user_id (None or an int) and another claim
IdValues == {PyNone} \cup {PyInt(n) : n \in UserIds}

Mappings ==
    {EmptyMap}
    \cup {[k \in {"exp"} |-> PyInt(1)]}
    \cup {[k \in {"user_id"} |-> v] : v \in IdValues}
    \cup {[k \in {"user_id", "exp"} |->
              IF k = "user_id" THEN v ELSE PyInt(1)] : v \in IdValues}

Payloads ==
    {[isNone |-> TRUE, fields |-> EmptyMap]}
    \cup {[isNone |-> FALSE, fields |-> m] : m \in Mappings}

\* truth value of a payload: None and the empty mapping are false
Truthy(payload) == ~payload.isNone /\ DOMAIN payload.fields # {}

\* dict.get(key, default)
DictGet(m, key, default) == IF key \in DOMAIN m THEN m[key] ELSE default

\* User.get_or_404(user_id): the row, or NotFound
get_or_404(user_id) ==
    IF user_id[2] \in users
    THEN [kind |-> "return", value |-> <<"User", user_id[2]>>,
          queried |-> TRUE]
    ELSE [kind |-> "raise", value |-> <<"NotFound">>, queried |-> TRUE]

\* a bridge that tests the truth value of user_id instead of `is not None`
retrieve_user_truthyId(payload) ==
    IF Truthy(payload)
    THEN LET user_id == DictGet(payload.fields, "user_id", PyNone)
         IN  IF user_id # PyNone /\ user_id # PyInt(0)
             THEN get_or_404(user_id)
             ELSE Returned(PyNone)
    ELSE Returned(PyNone)

\* lines 31-35
retrieve_user(payload) ==
    IF Truthy(payload)
    THEN LET user_id == DictGet(payload.fields, "user_id", PyNone)
         IN  IF user_id # PyNone
             THEN get_or_404(user_id)
             ELSE Returned(PyNone)
    ELSE Returned(PyNone)

\* lines 44-46
retrieve_refresh_token(user_id) == Returned(RedisGet(kv, Key(user_id)))

InitAuth ==
    /\ kv = EmptyMap
    /\ users = {}
    /\ last = [op |-> "none", arg |-> <<>>, out |-> Returned(PyNone)]
    /\ lastStored = [u \in UserIds |-> PyNone]
    /\ stores = 0

InitAuthDrawn ==
    /\ kv = EmptyMap
    /\ users \in SUBSET UserCandidates
    /\ last = [op |-> "none", arg |-> <<>>, out |-> Returned(PyNone)]
    /\ lastStored = [u \in UserIds |-> PyNone]
    /\ stores = 0

RetrieveUser ==
    /\ \E p \in Payloads :
          last' = [op |-> "retrieve_user", arg |-> p, out |-> retrieve_user(p)]
    /\ UNCHANGED <<kv, users, lastStored, stores>>
    /\ UNCHANGED <<lifeVars, mapVars>>

\* lines 38-41
StoreRefreshToken ==
    /\ stores < MaxStores
    /\ \E u \in UserIds, t \in Tokens :
          /\ kv' = RedisSet(kv, Key(u), t)
          /\ lastStored' = [lastStored EXCEPT ![u] = PyStr(t)]
          /\ last' = [op |-> "store_refresh_token", arg |-> <<u, t>>,
                      out |-> Returned(PyNone)]
    /\ stores' = stores + 1
    /\ UNCHANGED users
    /\ UNCHANGED <<lifeVars, mapVars>>

RetrieveRefreshToken ==
    /\ \E u \in UserIds :
          last' = [op |-> "retrieve_refresh_token", arg |-> <<u>>,
                   out |-> retrieve_refresh_token(u)]
    /\ UNCHANGED <<kv, users, lastStored, stores>>
    /\ UNCHANGED <<lifeVars, mapVars>>

\* ===================================================================
\* Cached sitemap: _sitemap (136-152) and the route sitemap (155-158)
\* ===================================================================
Calls == 1..MaxCalls

\* URLs are sequences of characters
Route(uri, methods, parameters) ==
    [uri |-> uri, methods |-> methods, parameters |-> parameters]

RoutePool ==
    { Route(<<"/">>, {"GET"}, {}),
      Route(<<"/", "p", "/", "<", "i", ">">>, {"GET"}, {"i"}),
      Route(<<"/", "a", "d", "m", "i", "n", "/", "e">>, {"GET"}, {}),
      Route(<<"/", "a", "p", "i", "/", "x">>, {"GET"}, {}),
      Route(<<"/", "c">>, {"POST"}, {}),
      Route(<<"/", "j", "/", "x">>, {"GET", "POST"}, {}),
      Route(<<"/", "b", "/", "j">>, {"GET"}, {}) }

\* line 147: the endpoints ('/admin', '/j', '/api')
Endpoints ==
    { <<"/", "a", "d", "m", "i", "n">>, <<"/", "j">>, <<"/", "a", "p", "i">> }

\* Python's `needle in hay` on str
Contains(needle, hay) ==
    \E i \in 0..(Len(hay) - Len(needle)) :
        SubSeq(hay, i + 1, i + Len(needle)) = needle

\* lines 146-150: the routes that get a synthesized entry
Synthesized(rts) ==
    { rt \in rts :
        /\ ~(\E endpoint \in Endpoints : Contains(endpoint, rt.uri))
        /\ "GET" \in rt.methods
        /\ rt.parameters = {} }

\* lines 137-152: the document rendered from the content items and the
\* synthesized entries [route.uri, ten_days_ago]
Builder(rts, c, day) ==
    [content |-> c,
     entries |-> { <<rt.uri, day - 10>> : rt \in Synthesized(rts) }]

NoPayload == [content |-> -1, entries |-> {}]

\* lines 157-158
HTTPResponse(body) ==
    [status |-> 200, body |-> body, content_type |-> "text/xml"]

NoResponse == [status |-> 0, body |-> NoPayload, content_type |-> ""]

\* models.blog.MC_KEY_SITEMAP, the one well-known key
MC_KEY_SITEMAP == <<"sitemap">>

\* a key that differs from call to call
SitemapKey_perCall(r) == <<"sitemap", r>>

\* line 136: @cache(MC_KEY_SITEMAP)
SitemapKey(r) == MC_KEY_SITEMAP

\* the memory cache: get, set, delete
McHas(key) == key \in DOMAIN mc
McSet(key, value) ==
    [k \in DOMAIN mc \cup {key} |-> IF k = key THEN value ELSE mc[k]]
McDelete(key) == [k \in DOMAIN mc \ {key} |-> mc[k]]
McEntry(cache, key) == IF key \in DOMAIN cache THEN cache[key] ELSE NoPayload

Quiet == \A q \in Calls : spc[q] \in {"idle", "done"}

InitMap ==
    /\ routes = RoutePool
    /\ mc = [k \in {} |-> NoPayload]
    /\ content = 0
    /\ today = 0
    /\ spc = [r \in Calls |-> "idle"]
    /\ built = [r \in Calls |-> NoPayload]
    /\ ran = [r \in Calls |-> FALSE]
    /\ response = [r \in Calls |-> NoResponse]
    /\ builds = 0
    /\ lastPayload = NoPayload
    /\ prior = [r \in Calls |-> NoPayload]
    /\ pendingInv = FALSE
    /\ fresh = [r \in Calls |-> FALSE]
    /\ stored = [r \in Calls |-> NoPayload]
    /\ lifeBuilds = 0
    /\ fault = [r \in Calls |-> "none"]

InitMapDrawn ==
    /\ routes \in SUBSET RoutePool
    /\ mc = [k \in {} |-> NoPayload]
    /\ content = 0
    /\ today = 0
    /\ spc = [r \in Calls |-> "idle"]
    /\ built = [r \in Calls |-> NoPayload]
    /\ ran = [r \in Calls |-> FALSE]
    /\ response = [r \in Calls |-> NoResponse]
    /\ builds = 0
    /\ lastPayload = NoPayload
    /\ prior = [r \in Calls |-> NoPayload]
    /\ pendingInv = FALSE
    /\ fresh = [r \in Calls |-> FALSE]
    /\ stored = [r \in Calls |-> NoPayload]
    /\ lifeBuilds = 0
    /\ fault = [r \in Calls |-> "none"]

\* the wrapper looks the key up: a hit returns the stored value and the
\* route answers; a miss goes on to the builder body
SitemapLookup(r) ==
    /\ spc[r] = "idle"
    /\ Quiet
    /\ prior' = [prior EXCEPT ![r] = lastPayload]
    /\ fresh' = [fresh EXCEPT ![r] = pendingInv]
    /\ pendingInv' = FALSE
    /\ IF McHas(SitemapKey(r))
       THEN /\ response' = [response EXCEPT ![r] = HTTPResponse(mc[SitemapKey(r)])]
            /\ lastPayload' = mc[SitemapKey(r)]
            /\ spc' = [spc EXCEPT ![r] = "done"]
       ELSE /\ spc' = [spc EXCEPT ![r] = "miss"]
            /\ UNCHANGED <<response, lastPayload>>
    /\ UNCHANGED <<routes, mc, content, today, built, ran, builds, stored>>
    /\ UNCHANGED <<lifeBuilds, fault>>
    /\ UNCHANGED <<lifeVars, authVars>>

\* lines 137-152: the builder body runs
RunBuilder(r) ==
    /\ spc[r] = "miss"
    /\ built' = [built EXCEPT ![r] = Builder(routes, content, today)]
    /\ ran' = [ran EXCEPT ![r] = TRUE]
    /\ builds' = builds + 1
    /\ spc' = [spc EXCEPT ![r] = "built"]
    /\ UNCHANGED <<routes, mc, content, today, response, lastPayload, prior,
                   pendingInv, fresh, stored>>
    /\ lifeBuilds' = lifeBuilds + 1
    /\ UNCHANGED fault
    /\ UNCHANGED <<lifeVars, authVars>>

\* the wrapper stores the result under the key and returns it; the route
\* answers (lines 157-158)
SitemapStore(r) ==
    /\ spc[r] = "built"
    /\ mc' = McSet(SitemapKey(r), built[r])
    /\ stored' = [stored EXCEPT ![r] = McEntry(mc', MC_KEY_SITEMAP)]
    /\ response' = [response EXCEPT ![r] = HTTPResponse(built[r])]
    /\ lastPayload' = built[r]
    /\ spc' = [spc EXCEPT ![r] = "done"]
    /\ UNCHANGED <<routes, content, today, built, ran, builds, prior,
                   pendingInv, fresh>>
    /\ UNCHANGED <<lifeBuilds, fault>>
    /\ UNCHANGED <<lifeVars, authVars>>

\* invalidate(MC_KEY_SITEMAP): the key, when present, is removed from the
\* cache
Invalidate ==
    /\ mc' = McDelete(MC_KEY_SITEMAP)
    /\ lastPayload' = NoPayload
    /\ pendingInv' = Quiet
    /\ UNCHANGED <<routes, content, today, spc, built, ran, response, builds,
                   prior, fresh, stored>>
    /\ lifeBuilds' = 0
    /\ UNCHANGED fault
    /\ UNCHANGED <<lifeVars, authVars>>

\* lines 139-140 read Post and Tag: the collections change
ContentChange ==
    /\ content < MaxContent
    /\ content' = content + 1
    /\ UNCHANGED <<routes, mc, today, spc, built, ran, response, builds,
                   lastPayload, prior, pendingInv, fresh, stored>>
    /\ UNCHANGED <<lifeBuilds, fault>>
    /\ UNCHANGED <<lifeVars, authVars>>

\* line 138 reads datetime.now(): a day passes
AdvanceDay ==
    /\ today < MaxDay
    /\ today' = today + 1
    /\ UNCHANGED <<routes, mc, content, spc, built, ran, response, builds,
                   lastPayload, prior, pendingInv, fresh, stored>>
    /\ UNCHANGED <<lifeBuilds, fault>>
    /\ UNCHANGED <<lifeVars, authVars>>

\* ------------------------------------------------ calls that overlap
\* the lookup of a call that may start while other calls are in flight
SitemapLookupAny(r) ==
    /\ spc[r] = "idle"
    /\ IF McHas(SitemapKey(r))
       THEN /\ response' = [response EXCEPT ![r] = HTTPResponse(mc[SitemapKey(r)])]
            /\ lastPayload' = mc[SitemapKey(r)]
            /\ spc' = [spc EXCEPT ![r] = "done"]
       ELSE /\ spc' = [spc EXCEPT ![r] = "miss"]
            /\ UNCHANGED <<response, lastPayload>>
    /\ pendingInv' = FALSE
    /\ UNCHANGED <<routes, mc, content, today, built, ran, builds, prior,
                   fresh, stored>>
    /\ UNCHANGED <<lifeBuilds, fault>>
    /\ UNCHANGED <<lifeVars, authVars>>

\* ------------------------------------------- errors of the cache backend
\* a wrapper that lets the error of the lookup reach the caller
SitemapLookupError_propagates(r) ==
    /\ spc[r] = "idle"
    /\ spc' = [spc EXCEPT ![r] = "error"]
    /\ fault' = [fault EXCEPT ![r] = "lookup"]
    /\ UNCHANGED <<routes, mc, content, today, built, ran, response, builds,
                   lastPayload, prior, pendingInv, fresh, stored, lifeBuilds>>
    /\ UNCHANGED <<lifeVars, authVars>>

\* the backend raises on the lookup: the wrapper goes on to the builder body
SitemapLookupError(r) ==
    /\ spc[r] = "idle"
    /\ spc' = [spc EXCEPT ![r] = "miss"]
    /\ fault' = [fault EXCEPT ![r] = "lookup"]
    /\ UNCHANGED <<routes, mc, content, today, built, ran, response, builds,
                   lastPayload, prior, pendingInv, fresh, stored, lifeBuilds>>
    /\ UNCHANGED <<lifeVars, authVars>>

\* the backend raises on the store: the wrapper returns what it built and
\* the route answers (lines 157-158)
SitemapStoreError(r) ==
    /\ spc[r] = "built"
    /\ response' = [response EXCEPT ![r] = HTTPResponse(built[r])]
    /\ fault' = [fault EXCEPT ![r] = "store"]
    /\ spc' = [spc EXCEPT ![r] = "done"]
    /\ UNCHANGED <<routes, mc, content, today, built, ran, builds,
                   lastPayload, prior, pendingInv, fresh, stored, lifeBuilds>>
    /\ UNCHANGED <<lifeVars, authVars>>

\* ===================================================================
\* Global error handler: ErrorHandler.default (72-78)
\* ===================================================================
\* str(exception), word by word
Texts ==
    { <<"[Errno 111]", "Connection", "refused">>,
      <<"[Errno 111]", "Connect", "call", "failed">>,
      <<"Connection", "reset", "by", "peer">>,
      <<"division", "by", "zero">> }

\* what format_tb prints for a frame, character by character: application
\* code, the aiomcache client, the sanic_session memcache interface, the
\* aioredis client
FrameApp == <<"a", "p", "p">>
FrameAiomcache == <<"a", "i", "o", "m", "c", "a", "c", "h", "e">>
FrameMemcache == <<"m", "e", "m", "c", "a", "c", "h", "e">>
FrameAioredis == <<"a", "i", "o", "r", "e", "d", "i", "s">>

Frames == {FrameApp, FrameAiomcache, FrameMemcache, FrameAioredis}

Tracebacks == UNION {[1..n -> Frames] : n \in 0..MaxFrames}

HasFrame(tb, f) == \E i \in 1..Len(tb) : tb[i] = f

\* the exceptions a request can raise: a connection refusal of the memory
\* cache passes through aiomcache, one of the key-value store through
\* aioredis, both with either wording of the refusal; anything else
Exceptions ==
    { [origin |-> o, text |-> t, tb |-> tb] :
        o \in {"memcache_refused", "redis_refused", "other"},
        t \in Texts, tb \in Tracebacks }

Raisable ==
    { e \in Exceptions :
        /\ e.origin = "memcache_refused" =>
               HasFrame(e.tb, FrameAiomcache) /\ e.text[1] = "[Errno 111]"
        /\ e.origin = "redis_refused" =>
               HasFrame(e.tb, FrameAioredis) /\ e.text[1] = "[Errno 111]" }

\* line 75: 'Connection refused' in str(exception)
TextRefused(e) == Contains(<<"Connection", "refused">>, e.text)

\* line 75: 'memcache' in exc, exc the frames joined by newlines
TraceNamesMemcache(e) ==
    \E i \in 1..Len(e.tb) : Contains(FrameMemcache, e.tb[i])

\* lines 74-78: the exception handed on to the default handler
default(e) ==
    IF TextRefused(e) /\ TraceNamesMemcache(e)
    THEN [translated |-> TRUE,
          kind |-> "ServerError",
          message |-> <<"Please confirm that memcached is running!", e.tb>>]
    ELSE [translated |-> FALSE, kind |-> e.origin, message |-> <<e.text>>]

HandleError ==
    /\ server = "serving"
    /\ \E e \in Raisable :
          handled' = [called |-> TRUE, exception |-> e, passed |-> default(e)]
    /\ UNCHANGED <<client, redis, session_iface, async_session, db,
                   upload_exists, startup, server, pc, newPool, redis_var,
                   memcache_var, log, upload_before, poolsCreated,
                   startups, clientsMade, httpOpen>>
    /\ UNCHANGED <<authVars, mapVars>>

\* ===================================================================
\* Specifications
\* ===================================================================
Init == InitLife /\ InitAuth /\ InitMap

Next ==
    \/ InitDbOk
    \/ InitDbRaise
    \/ ConstructClient
    \/ BindSession
    \/ ConstructHttp
    \/ MakeUploadDir
    \/ \E r \in Requests : SetupContextEnter(r)
    \/ \E r \in Requests : SetupContextResume(r)
    \/ \E r \in Requests : SetupContextRaise(r)
    \/ \E r \in Requests : Handler(r)
    \/ close_aiohttp_session

Spec == Init /\ [][Next]_vars

\* the lifecycle when the startup listener may be invoked again
NextRestart ==
    \/ InitDbOk
    \/ InitDbRaise
    \/ ConstructClient
    \/ BindSession
    \/ ConstructHttp
    \/ MakeUploadDir
    \/ SetupDbAgain
    \/ \E r \in Requests : SetupContextEnter(r)
    \/ \E r \in Requests : SetupContextResume(r)
    \/ \E r \in Requests : SetupContextRaise(r)
    \/ \E r \in Requests : Handler(r)
    \/ close_aiohttp_session

SpecRestart == Init /\ [][NextRestart]_vars

\* startup, then the error handler on the exceptions of the requests
NextError ==
    \/ InitDbOk
    \/ InitDbRaise
    \/ ConstructClient
    \/ BindSession
    \/ ConstructHttp
    \/ MakeUploadDir
    \/ HandleError

SpecError == Init /\ [][NextError]_vars

InitA == InitLife /\ InitAuthDrawn /\ InitMap

NextAuth ==
    \/ RetrieveUser
    \/ StoreRefreshToken
    \/ RetrieveRefreshToken

SpecAuth == InitA /\ [][NextAuth]_vars

InitS == InitLife /\ InitAuth /\ InitMapDrawn

NextSitemap ==
    \/ \E r \in Calls : SitemapLookup(r)
    \/ \E r \in Calls : RunBuilder(r)
    \/ \E r \in Calls : SitemapStore(r)
    \/ Invalidate
    \/ ContentChange
    \/ AdvanceDay

SpecSitemap == InitS /\ [][NextSitemap]_vars

\* calls of sitemap that overlap, on a cache backend that may raise
NextSitemapLive ==
    \/ \E r \in Calls : SitemapLookupAny(r)
    \/ \E r \in Calls : SitemapLookupError(r)
    \/ \E r \in Calls : RunBuilder(r)
    \/ \E r \in Calls : SitemapStore(r)
    \/ \E r \in Calls : SitemapStoreError(r)
    \/ Invalidate
    \/ ContentChange
    \/ AdvanceDay

SpecSitemapLive == Init /\ [][NextSitemapLive]_vars

\* ===================================================================
\* Properties of the lifecycle (checked under Spec)
\* ===================================================================
StartupOrder == <<"init_db", "client", "session", "http", "mkdir">>

IsPrefix(s, t) == Len(s) <= Len(t) /\ \A i \in 1..Len(s) : s[i] = t[i]

Published(r) == pc[r] \in {"handler", "done"}

\* C1: however the per-request hooks interleave, create_redis_pool is
\* invoked at most once in the life of the process.
C1_PoolCreatedAtMostOnce == poolsCreated <= 1

\* C2: once the global redis holds a pool it is never assigned again, and
\* all requests that passed the hook hold the same pool in redis_var.
C2_PoolNeverReassigned ==
    [][ /\ (redis # None => redis' = redis)
        /\ \A r, q \in Requests :
              (Published(r) /\ Published(q))' => redis_var'[r] = redis_var'[q]
      ]_vars

\* C3: the effects of startup appear strictly in the order init_db, cache
\* client, session binding, HTTP client, upload directory: at every moment
\* the steps taken are a prefix of that order and the handles that exist
\* are exactly those of the steps taken.
C3_StartupStepsInOrder ==
    /\ IsPrefix(log, StartupOrder)
    /\ (db = "open") <=> (Len(log) >= 1)
    /\ (client # None) <=> (Len(log) >= 2)
    /\ (session_iface # None) <=> (Len(log) >= 3)
    /\ (async_session # "none") <=> (Len(log) >= 4)
    /\ (startup = "done") <=> (Len(log) = 5)
    /\ (startup = "done") => upload_exists

C3_Witness == startup = "done" /\ log = StartupOrder /\ ~upload_before

\* C4: when init_db raises, startup has aborted and no later step has taken
\* effect: no cache client, no session binding, no HTTP client, and the
\* upload directory is as it was before startup.
C4_AbortLeavesNothing ==
    startup = "aborted" =>
        /\ client = None
        /\ session_iface = None
        /\ async_session = "none"
        /\ upload_exists = upload_before
        /\ log = <<>>
        /\ server = "starting"

C4_Witness == startup = "aborted" /\ ~upload_exists

\* C5: whenever a route handler runs (or has run), the hook has published
\* a non-null pool in redis_var and, in memcache_var, the cache client that
\* the completed startup constructed.
C5_HandlerSeesHandles ==
    \A r \in Requests :
        Published(r) =>
            /\ redis_var[r] \notin {None, Unset}
            /\ memcache_var[r] \notin {None, Unset}
            /\ memcache_var[r] = client
            /\ startup = "done"

\* one handler runs behind a lazy creation, another behind the reuse path
C5_Witness ==
    \E r, q \in Requests :
        /\ pc[r] = "handler" /\ newPool[r] # None
        /\ pc[q] = "handler" /\ newPool[q] = None

\* the handles that are open: nothing in app.py closes the relational
\* store, the cache client or the pool, so each is open once it exists
DbOpen == db = "open"
ClientOpen == client # None
PoolOpen == redis # None
HttpOpen == httpOpen > 0

\* C12: every backend handle is created during startup, and once, and
\* after shutdown none of them is open.
C12_HandlesCreatedAtStartupClosedAtShutdown ==
    [][ /\ (poolsCreated' # poolsCreated => server = "starting")
        /\ poolsCreated' <= 1
        /\ clientsMade' <= 1
        /\ (server' = "stopped" =>
               (~DbOpen /\ ~ClientOpen /\ ~PoolOpen /\ ~HttpOpen)')
      ]_vars

\* C13: once shutdown has run after a completed startup, the HTTP client
\* startup constructed is closed and no ClientSession is open, whatever
\* the requests did in between.
C13_ShutdownClosesHttp ==
    server = "stopped" =>
        /\ startup = "done"
        /\ async_session = "closed"
        /\ httpOpen = 0

\* shutdown after requests were served, and shutdown with no pool created
C13_Witness ==
    /\ server = "stopped"
    /\ \/ (\E r \in Requests : pc[r] = "done") /\ redis # None
       \/ redis = None

\* C16: a further invocation of setup_db is a no-op or ends with an error:
\* no second cache client is constructed and no second HTTP client is
\* open next to the first.
C16_SecondStartupReplacesNothing ==
    /\ clientsMade <= 1
    /\ httpOpen <= 1

\* C18: when create_redis_pool raises in a request, the global redis is
\* None afterwards, neither ContextVar of the request is set, no pool is
\* left with the request, and a request that enters while redis is None
\* attempts the creation.
C18_FailedCreationLeavesNone ==
    [][ \A r \in Requests :
          /\ (pc[r] = "creating" /\ pc'[r] = "error") =>
                 /\ redis' = None
                 /\ redis_var'[r] = Unset
                 /\ memcache_var'[r] = Unset
                 /\ newPool'[r] = None
          /\ (pc[r] = "idle" /\ pc'[r] # "idle" /\ redis = None) =>
                 pc'[r] = "creating"
      ]_vars

\* ===================================================================
\* Properties of the error handler (checked under SpecError)
\* ===================================================================
\* C14: the handler turns an exception into the memcached ServerError
\* exactly when it is a connection refusal of the memory cache, and that
\* is exactly when its text holds 'Connection refused' and its traceback
\* names memcache.
C14_TranslatesExactlyCacheRefusals ==
    handled.called =>
        /\ handled.passed.translated
             <=> handled.exception.origin = "memcache_refused"
        /\ handled.passed.translated
             <=> (TextRefused(handled.exception)
                  /\ TraceNamesMemcache(handled.exception))

\* ===================================================================
\* Properties of the auth token bridge (checked under SpecAuth)
\* ===================================================================
\* C6: after any sequence of stores, retrieve_refresh_token(u) returns the
\* token of the latest store_refresh_token(u, t), and None when no store
\* was ever made for u; a retrieval that just happened returned that value.
C6_RetrieveReturnsLatestStore ==
    /\ \A u \in UserIds : retrieve_refresh_token(u).value = lastStored[u]
    /\ last.op = "retrieve_refresh_token" =>
           last.out = Returned(lastStored[last.arg[1]])

\* a token was overwritten and read back, while another user has none
C6_Witness ==
    /\ last.op = "retrieve_refresh_token"
    /\ last.out.value = PyStr("xyz")
    /\ stores >= 2
    /\ Cardinality(DOMAIN kv) = 1
    /\ \E v \in UserIds : retrieve_refresh_token(v).value = PyNone

\* C17: store_refresh_token(u, t) leaves the value retrieve_refresh_token
\* returns for every other user id as it was, and distinct user ids have
\* distinct keys.
C17_StoreTouchesOnlyItsUser ==
    [][ stores' = stores + 1 =>
          LET u == last'.arg[1]
          IN  \A v \in UserIds \ {u} :
                  /\ Key(v) # Key(u)
                  /\ retrieve_refresh_token(v)' = retrieve_refresh_token(v)
      ]_vars

\* a store was made while another user's token was in the store
C17_Witness ==
    /\ last.op = "store_refresh_token"
    /\ Cardinality(DOMAIN kv) = 2
    /\ \E v \in UserIds \ {last.arg[1]} :
           retrieve_refresh_token(v).value # PyNone

\* the cases of the claim, read off the payload
HasUserId(p) ==
    /\ ~p.isNone
    /\ "user_id" \in DOMAIN p.fields
    /\ p.fields["user_id"] # PyNone

\* C7: retrieve_user has exactly three outcomes: None without a query when
\* the payload is absent, empty or carries no user_id (or None); the user
\* when user_id names a row; the NotFound error, raised to the caller, when
\* user_id (0 included) names no row.
C7_RetrieveUserOutcomes ==
    last.op = "retrieve_user" =>
        IF ~HasUserId(last.arg)
        THEN last.out = [kind |-> "return", value |-> PyNone,
                         queried |-> FALSE]
        ELSE LET id == last.arg.fields["user_id"][2]
             IN  IF id \in users
                 THEN last.out = [kind |-> "return",
                                  value |-> <<"User", id>>,
                                  queried |-> TRUE]
                 ELSE last.out = [kind |-> "raise",
                                  value |-> <<"NotFound">>,
                                  queried |-> TRUE]

\* user_id 0 names no row and the call fails with NotFound
C7_Witness ==
    /\ last.op = "retrieve_user"
    /\ HasUserId(last.arg)
    /\ last.arg.fields["user_id"] = PyInt(0)
    /\ 0 \notin users
    /\ last.out.kind = "raise"

\* ===================================================================
\* Properties of the cached sitemap (checked under SpecSitemap)
\* ===================================================================
\* str.startswith
StartsWith(hay, needle) ==
    Len(needle) <= Len(hay) /\ SubSeq(hay, 1, Len(needle)) = needle

\* C8: the builder adds a synthesized entry for a route if and only if the
\* route allows GET, has no parameters, and its URL does not begin with
\* /admin, /j or /api.
C8_EntryIffNotPrefixed ==
    \A r \in Calls :
        ran[r] =>
            \A rt \in routes :
                (\E e \in built[r].entries : e[1] = rt.uri)
                <=> /\ "GET" \in rt.methods
                    /\ rt.parameters = {}
                    /\ ~(\E p \in Endpoints : StartsWith(rt.uri, p))

\* C9: a call of the cached computation that follows a completed call, with
\* no invalidation in between, does not run the builder body and answers
\* with the payload the earlier call returned.
C9_SecondCallServedFromCache ==
    \A r \in Calls :
        (spc[r] = "done" /\ prior[r] # NoPayload) =>
            /\ ~ran[r]
            /\ response[r] = HTTPResponse(prior[r])

\* two calls are done, the builder ran once, the content changed or not
C9_Witness ==
    \E r, q \in Calls :
        /\ r # q
        /\ spc[q] = "done" /\ ran[q]
        /\ spc[r] = "done" /\ prior[r] = response[q].body /\ ~ran[r]
        /\ builds = 1

C15_OneBuildPerCacheLifetime ==
    (\A r \in Calls : fault[r] = "none") => lifeBuilds <= 1

====
